---- MODULE Spec2Model ----
(***************************************************************************)
(* Model of the real-time Whisper voice-to-text daemon                     *)
(* (src/realtime-whisper-daemon.py): the rolling audio buffer, the segment *)
(* dispatch of process_audio_chunk, the transcription worker with its      *)
(* text reconciliation, and start_recording / stop_recording.              *)
(*                                                                         *)
(* A Python str is a sequence of one-character strings.  An audio sample   *)
(* is the ordinal of its arrival from the capture device (the buffer code  *)
(* never looks at a sample's value).                                       *)
(***************************************************************************)
EXTENDS Integers, Sequences, FiniteSets, TLC

VARIABLES
    recording,              \* global recording (line 41)
    stream,                 \* global stream (line 43): "None", "open", "closed"
    audio_buffer,           \* global audio_buffer (line 45)
    audio_queue,            \* global audio_queue (line 46), oldest first
    transcription_thread,   \* global transcription_thread (line 47), 0 is None
    stop_threads,           \* global stop_threads (line 48)
    last_text,              \* global last_text (line 49)
    last_command,           \* last_command of monitor_control_file
    main_pc,                \* where monitor_control_file is in its loop body
    threads,                \* every transcription_worker thread: pc and locals
    nsamples,               \* samples the capture device has delivered so far
    cleared_at,             \* history: nsamples at the last audio_buffer.clear()
    dispatched,             \* history: every segment put on audio_queue
    hist                    \* history of the run

vars == <<recording, stream, audio_buffer, audio_queue, transcription_thread,
          stop_threads, last_text, last_command, main_pc, threads, nsamples,
          cleared_at, dispatched, hist>>

----------------------------------------------------------------------------
(* Python str operations used by transcription_worker *)

Min(a, b) == IF a < b THEN a ELSE b

\* str whitespace, as far as the model's alphabet has any
Whitespace == {" "}

\* s[:n]
SliceTo(s, n) == SubSeq(s, 1, Min(n, Len(s)))

\* s[n:]
SliceFrom(s, n) == SubSeq(s, n + 1, Len(s))

\* s.startswith(prefix)
startswith(s, prefix) ==
    /\ Len(prefix) <= Len(s)
    /\ SubSeq(s, 1, Len(prefix)) = prefix

\* s.endswith(suffix)
endswith(s, suffix) ==
    /\ Len(suffix) <= Len(s)
    /\ SubSeq(s, Len(s) - Len(suffix) + 1, Len(s)) = suffix

RECURSIVE lstrip(_)
lstrip(s) ==
    IF s # <<>> /\ Head(s) \in Whitespace THEN lstrip(Tail(s)) ELSE s

RECURSIVE rstrip(_)
rstrip(s) ==
    IF s # <<>> /\ s[Len(s)] \in Whitespace
    THEN rstrip(SubSeq(s, 1, Len(s) - 1))
    ELSE s

\* s.strip()
strip(s) == rstrip(lstrip(s))

----------------------------------------------------------------------------
(* The reconciliation of transcription_worker, lines 119-141 *)

\* the literal 10 of last_text[:10]
PrefixLen == 10

\* IsNewText without the test of line 123 for a trailing substring
IsNewText_NoSuffixTest(last, transcription) ==
    /\ transcription # <<>>
    /\ transcription # last

\* line 121 and line 123: the result is typed at all
IsNewText(last, transcription) ==
    /\ transcription # <<>>
    /\ transcription # last
    /\ ~endswith(last, transcription)

\* IsContinuation comparing the first 10 characters of both strings
IsContinuation_BothSliced(last, transcription) ==
    /\ Len(transcription) > Len(last)
    /\ SliceTo(transcription, PrefixLen) = SliceTo(last, PrefixLen)

\* IsContinuation without the length test
IsContinuation_NoLengthTest(last, transcription) ==
    startswith(transcription, SliceTo(last, PrefixLen))

\* line 125: "longer than last and starts similarly"
IsContinuation(last, transcription) ==
    /\ Len(transcription) > Len(last)
    /\ startswith(transcription, SliceTo(last, PrefixLen))

\* NewText with the separator in both branches
NewText_AlwaysSeparated(last, transcription) ==
    IF IsContinuation(last, transcription)
    THEN <<" ">> \o SliceFrom(transcription, Len(last))
    ELSE <<" ">> \o transcription

\* NewText cutting the continuation at the length of the compared opening
NewText_CutAtOpening(last, transcription) ==
    IF IsContinuation(last, transcription)
    THEN SliceFrom(transcription, Len(SliceTo(last, PrefixLen)))
    ELSE <<" ">> \o transcription

\* lines 125-130: new_text
NewText(last, transcription) ==
    IF IsContinuation(last, transcription)
    THEN SliceFrom(transcription, Len(last))
    ELSE <<" ">> \o transcription

\* Reconcile without the update of line 141
Reconcile_NoUpdate(last, raw) ==
    LET transcription == strip(raw) IN
    IF IsNewText(last, transcription)
    THEN [typed |-> TRUE,
          new_text |-> NewText(last, transcription),
          last_text |-> last]
    ELSE [typed |-> FALSE, new_text |-> <<>>, last_text |-> last]

\* lines 119-141 as a function of (last_text, result["text"]):
\* what is typed (<<>>: no xdotool call) and the next last_text
Reconcile(last, raw) ==
    LET transcription == strip(raw) IN
    IF IsNewText(last, transcription)
    THEN [typed |-> TRUE,
          new_text |-> NewText(last, transcription),
          last_text |-> transcription]
    ELSE [typed |-> FALSE, new_text |-> <<>>, last_text |-> last]

----------------------------------------------------------------------------
(* Texts the transcription backend returns *)

\* longest tail appended to a stem
MaxTail == 2
\* results handled in one run of the reconciliation specification
MaxResults == 3

RECURSIVE Strings(_, _)
Strings(alphabet, n) ==
    IF n = 0 THEN {<<>>}
    ELSE LET shorter == Strings(alphabet, n - 1) IN
         shorter \cup {Append(s, c) : s \in shorter, c \in alphabet}

Tails == Strings({"a", "b"}, MaxTail)

\* an opening of exactly PrefixLen characters, and one that differs from it
\* in its last character only
StemA == [i \in 1..PrefixLen |-> "a"]
StemB == [i \in 1..PrefixLen |-> IF i = PrefixLen THEN "b" ELSE "a"]

Hello == <<"h", "e", "l", "l", "o">>
HelloWorld == Hello \o <<" ", "w", "o", "r", "l", "d">>

BackendTexts ==
    Tails
    \cup {StemA \o t : t \in Tails}
    \cup {StemB, StemB \o <<"a">>}
    \cup {<<" ">>, <<" ", "a", " ">>, <<"a", " ", "b">>,
          <<" ">> \o StemA \o <<"a", " ">>}
    \cup {Hello, HelloWorld}

----------------------------------------------------------------------------
(* Configuration (lines 30-38) *)

\* samples per second in the model; the source has 16000
SAMPLE_RATE == 1
\* samples per stream.read in the model; the source has 4096
CHUNK == 1
SEGMENT_LENGTH == 2
BUFFER_LENGTH == 10

\* deque(maxlen=int(BUFFER_LENGTH * SAMPLE_RATE))
Capacity == BUFFER_LENGTH * SAMPLE_RATE
\* the threshold of line 191
Threshold == SEGMENT_LENGTH * SAMPLE_RATE

\* transcription_worker threads ever started in one run
MaxThreads == 2
\* successful stream.read calls in one run of the daemon
MaxReads == 3
\* longest chunk pushed, and samples pushed in all, in one run of the buffer
\* specification
MaxChunkLen == 3
MaxSamples == 12

----------------------------------------------------------------------------
(* The rolling buffer and the segment dispatch *)

\* extend that drops on the right what exceeds maxlen
extend_KeepOldest(buffer, samples) ==
    LET all == buffer \o samples IN
    IF Len(all) > Capacity THEN SubSeq(all, 1, Capacity) ELSE all

\* deque.extend on a deque with maxlen: append on the right, drop from the
\* left what exceeds maxlen
extend(buffer, samples) ==
    LET all == buffer \o samples IN
    IF Len(all) > Capacity
    THEN SubSeq(all, Len(all) - Capacity + 1, Len(all))
    ELSE all

\* Segment holding only the last SEGMENT_LENGTH seconds
Segment_LastSeconds(buffer) ==
    SubSeq(buffer, Len(buffer) - Threshold + 1, Len(buffer))

\* np.array(list(audio_buffer)): a copy of the whole buffer
Segment(buffer) == buffer

\* the newest sample of a segment
Newest(segment) == segment[Len(segment)]

Max(a, b) == IF a > b THEN a ELSE b

\* the next n samples of the capture device
Samples(n) == [i \in 1..n |-> nsamples + i]

\* process_audio_chunk(chunk), lines 180-196
ProcessAudioChunk(samples) ==
    /\ audio_buffer' = extend(audio_buffer, samples)
    /\ nsamples' = nsamples + Len(samples)
    /\ IF Len(audio_buffer') >= Threshold
       THEN /\ audio_queue' = Append(audio_queue, Segment(audio_buffer'))
            /\ dispatched' = Append(dispatched, Segment(audio_buffer'))
       ELSE UNCHANGED <<audio_queue, dispatched>>

----------------------------------------------------------------------------
(* The daemon: monitor_control_file and the transcription_worker threads *)

Commands == {"start", "stop", "ready"}

\* what the backend returns in a run of the daemon
DaemonTexts == {<<"a">>, <<"a", "b">>, <<" ", "b", " ">>, <<" ">>}

Idle == [pc |-> "unborn", audio_data |-> <<>>, transcription |-> <<>>,
         new_text |-> <<>>]

Alive(t) == threads[t].pc \notin {"unborn", "dead"}

\* the module globals after import, lines 41-49
Globals ==
    /\ recording = FALSE
    /\ stream = "None"
    /\ audio_buffer = <<>>
    /\ audio_queue = <<>>
    /\ transcription_thread = 0
    /\ stop_threads = FALSE
    /\ last_text = <<>>
    /\ last_command = ""
    /\ main_pc = "command"
    /\ threads = [t \in 1..MaxThreads |-> Idle]
    /\ nsamples = 0
    /\ cleared_at = 0
    /\ dispatched = <<>>

\* an event of the daemon's run: what happened, and in which worker thread
\* (0: in the control loop)
Event(ev, t) == [ev |-> ev, t |-> t]

\* the history of a run of the daemon: the most recent event, whether Return
\* has been typed since the last start, and the newest sample of the newest
\* segment whose result has reached line 119
NoEvent == [last |-> Event("none", 0), delimited |-> FALSE, begun |-> 0]

Init == Globals /\ hist = NoEvent

\* StartRecording without the test of line 69
StartRecording_NoGuard(opened) ==
    \E t \in 1..MaxThreads :
       /\ threads[t].pc = "unborn"
       /\ \A u \in 1..(t - 1) : threads[u].pc # "unborn"
       /\ audio_buffer' = <<>>
       /\ cleared_at' = nsamples
       /\ stop_threads' = FALSE
       /\ threads' = [threads EXCEPT ![t].pc = "loop"]
       /\ transcription_thread' = t
       /\ recording' = opened
       /\ stream' = IF opened THEN "open" ELSE stream

\* start_recording(), lines 65-98; opened: whether p.open succeeds
StartRecording(opened) ==
    IF recording
    THEN UNCHANGED <<recording, stream, audio_buffer, stop_threads,
                     transcription_thread, threads, cleared_at>>
    ELSE \E t \in 1..MaxThreads :
            /\ threads[t].pc = "unborn"
            /\ \A u \in 1..(t - 1) : threads[u].pc # "unborn"
            /\ audio_buffer' = <<>>
            /\ cleared_at' = nsamples
            /\ stop_threads' = FALSE
            /\ threads' = [threads EXCEPT ![t].pc = "loop"]
            /\ transcription_thread' = t
            /\ recording' = opened
            /\ stream' = IF opened THEN "open" ELSE stream

\* stop_recording() up to the join, lines 153-170
StopRecording ==
    IF ~recording
    THEN /\ main_pc' = "capture"
         /\ last_command' = "stop"
         /\ UNCHANGED <<recording, stop_threads, stream>>
    ELSE /\ recording' = FALSE
         /\ stop_threads' = TRUE
         /\ stream' = IF stream = "None" THEN stream ELSE "closed"
         /\ main_pc' = "join"
         /\ UNCHANGED last_command

\* lines 204-213: the control file holds command
Command(command) ==
    /\ main_pc = "command"
    /\ IF command = last_command
       THEN /\ main_pc' = "capture"
            /\ UNCHANGED <<recording, stream, audio_buffer, stop_threads,
                           transcription_thread, threads, cleared_at,
                           last_command, hist>>
       ELSE CASE command = "start" ->
                   /\ \E opened \in BOOLEAN : StartRecording(opened)
                   /\ main_pc' = "capture"
                   /\ last_command' = command
                   /\ hist' = [hist EXCEPT
                          !.last = Event(IF recording THEN "start_noop"
                                         ELSE "start", 0),
                          !.delimited = recording /\ hist.delimited]
              [] command = "stop" ->
                   /\ StopRecording
                   /\ hist' = [hist EXCEPT
                          !.last = Event(IF recording THEN "stop"
                                         ELSE "stop_noop", 0)]
                   /\ UNCHANGED <<audio_buffer, transcription_thread, threads,
                                  cleared_at>>
              [] OTHER ->
                   /\ main_pc' = "capture"
                   /\ last_command' = command
                   /\ UNCHANGED <<recording, stream, audio_buffer,
                                  stop_threads, transcription_thread, threads,
                                  cleared_at, hist>>
    /\ UNCHANGED <<audio_queue, last_text, nsamples, dispatched>>

\* the worker is inside a call that can outlast the join's 2 seconds
InLongCall(t) == threads[t].pc \in {"transcribe", "type"}

\* stop_recording() from the join on, lines 170-178, and line 213:
\* transcription_thread.join(timeout=2) returns when the thread has ended
\* or the timeout has passed; then Return is typed
Join ==
    /\ main_pc = "join"
    /\ \/ transcription_thread = 0
       \/ ~Alive(transcription_thread)
       \/ InLongCall(transcription_thread)
    /\ main_pc' = "capture"
    /\ last_command' = "stop"
    /\ hist' = [hist EXCEPT !.last = Event("return", 0),
                             !.delimited = TRUE]
    /\ UNCHANGED <<recording, stream, audio_buffer, audio_queue,
                   transcription_thread, stop_threads, last_text, threads,
                   nsamples, cleared_at, dispatched>>

\* lines 216-223; read: whether stream.read returns a chunk or raises
Capture(read) ==
    /\ main_pc = "capture"
    /\ main_pc' = "command"
    /\ IF recording /\ stream # "None" /\ read
       THEN /\ nsamples < MaxReads * CHUNK
            /\ ProcessAudioChunk(Samples(CHUNK))
       ELSE UNCHANGED <<audio_buffer, audio_queue, nsamples, dispatched>>
    /\ UNCHANGED <<recording, stream, transcription_thread, stop_threads,
                   last_text, last_command, threads, cleared_at, hist>>

\* line 104: while not stop_threads
WorkerLoop(t) ==
    /\ threads[t].pc = "loop"
    /\ threads' = [threads EXCEPT ![t].pc =
                       IF stop_threads THEN "dead" ELSE "get"]
    /\ UNCHANGED <<recording, stream, audio_buffer, audio_queue,
                   transcription_thread, stop_threads, last_text,
                   last_command, main_pc, nsamples, cleared_at, dispatched,
                   hist>>

\* line 107: audio_queue.get(timeout=0.5) returns the oldest segment, or
\* raises queue.Empty (lines 146-148) when there is none
WorkerGet(t) ==
    /\ threads[t].pc = "get"
    /\ IF audio_queue = <<>>
       THEN /\ threads' = [threads EXCEPT ![t].pc = "loop"]
            /\ UNCHANGED audio_queue
       ELSE /\ threads' = [threads EXCEPT ![t].pc = "transcribe",
                                          ![t].audio_data = Head(audio_queue)]
            /\ audio_queue' = Tail(audio_queue)
    /\ UNCHANGED <<recording, stream, audio_buffer, transcription_thread,
                   stop_threads, last_text, last_command, main_pc, nsamples,
                   cleared_at, dispatched, hist>>

\* lines 113-132 and 143-144: whisper_model.transcribe returns raw and the
\* text to type is computed from last_text
WorkerTranscribe(t, raw) ==
    LET r == Reconcile(last_text, raw) IN
    /\ threads[t].pc = "transcribe"
    /\ threads' = [threads EXCEPT ![t] =
           IF r.typed
           THEN [pc |-> "type", audio_data |-> <<>>,
                 transcription |-> r.last_text, new_text |-> r.new_text]
           ELSE [Idle EXCEPT !.pc = "loop"]]
    /\ hist' = [hist EXCEPT
           !.last = Event(IF r.typed THEN "reconcile" ELSE "suppressed", t),
           !.begun = Max(hist.begun, Newest(threads[t].audio_data))]
    /\ UNCHANGED <<recording, stream, audio_buffer, audio_queue,
                   transcription_thread, stop_threads, last_text,
                   last_command, main_pc, nsamples, cleared_at, dispatched>>

\* WorkerTranscribeError ending the thread
WorkerTranscribeError_Dies(t) ==
    /\ threads[t].pc = "transcribe"
    /\ threads' = [threads EXCEPT ![t] = [Idle EXCEPT !.pc = "dead"]]
    /\ hist' = [hist EXCEPT !.last = Event("failed", t)]
    /\ UNCHANGED <<recording, stream, audio_buffer, audio_queue,
                   transcription_thread, stop_threads, last_text,
                   last_command, main_pc, nsamples, cleared_at, dispatched>>

\* lines 149-151: whisper_model.transcribe raises
WorkerTranscribeError(t) ==
    /\ threads[t].pc = "transcribe"
    /\ threads' = [threads EXCEPT ![t] = [Idle EXCEPT !.pc = "loop"]]
    /\ hist' = [hist EXCEPT !.last = Event("failed", t)]
    /\ UNCHANGED <<recording, stream, audio_buffer, audio_queue,
                   transcription_thread, stop_threads, last_text,
                   last_command, main_pc, nsamples, cleared_at, dispatched>>

\* WorkerType updating last_text only when xdotool succeeded
WorkerType_UpdateOnSuccess(t, ok) ==
    /\ threads[t].pc = "type"
    /\ last_text' = IF ok THEN threads[t].transcription ELSE last_text
    /\ threads' = [threads EXCEPT ![t] = [Idle EXCEPT !.pc = "loop"]]
    /\ hist' = [hist EXCEPT
           !.last = Event(IF ok THEN "typed" ELSE "type_failed", t)]
    /\ UNCHANGED <<recording, stream, audio_buffer, audio_queue,
                   transcription_thread, stop_threads, last_command, main_pc,
                   nsamples, cleared_at, dispatched>>

\* lines 134-144: xdotool has typed new_text (ok) or has failed, and
\* last_text is updated
WorkerType(t, ok) ==
    /\ threads[t].pc = "type"
    /\ last_text' = threads[t].transcription
    /\ threads' = [threads EXCEPT ![t] = [Idle EXCEPT !.pc = "loop"]]
    /\ hist' = [hist EXCEPT
           !.last = Event(IF ok THEN "typed" ELSE "type_failed", t)]
    /\ UNCHANGED <<recording, stream, audio_buffer, audio_queue,
                   transcription_thread, stop_threads, last_command, main_pc,
                   nsamples, cleared_at, dispatched>>

Worker(t) ==
    \/ WorkerLoop(t)
    \/ WorkerGet(t)
    \/ \E raw \in DaemonTexts : WorkerTranscribe(t, raw)
    \/ WorkerTranscribeError(t)
    \/ \E ok \in BOOLEAN : WorkerType(t, ok)

Next ==
    \/ \E command \in Commands : Command(command)
    \/ Join
    \/ \E read \in BOOLEAN : Capture(read)
    \/ \E t \in 1..MaxThreads : Worker(t)

Spec == Init /\ [][Next]_vars

----------------------------------------------------------------------------
(* The rolling buffer and the queue on their own: chunks of any length *)

InitBuffer == Globals /\ hist = <<>>

ChunkLens == (1..MaxChunkLen) \cup {Capacity + 1}

\* process_audio_chunk(chunk) for a chunk of n samples
PushChunk(n) ==
    /\ nsamples + n <= MaxSamples
    /\ ProcessAudioChunk(Samples(n))
    /\ UNCHANGED <<recording, stream, transcription_thread, stop_threads,
                   last_text, last_command, main_pc, threads, cleared_at,
                   hist>>

\* audio_buffer.clear(), line 73
ClearBuffer ==
    /\ audio_buffer' = <<>>
    /\ cleared_at' = nsamples
    /\ UNCHANGED <<recording, stream, audio_queue, transcription_thread,
                   stop_threads, last_text, last_command, main_pc, threads,
                   nsamples, dispatched, hist>>

\* audio_queue.get() of a queued segment, line 107
GetSegment ==
    /\ audio_queue # <<>>
    /\ audio_queue' = Tail(audio_queue)
    /\ UNCHANGED <<recording, stream, audio_buffer, transcription_thread,
                   stop_threads, last_text, last_command, main_pc, threads,
                   nsamples, cleared_at, dispatched, hist>>

NextBuffer ==
    \/ \E n \in ChunkLens : PushChunk(n)
    \/ ClearBuffer
    \/ GetSegment

SpecBuffer == InitBuffer /\ [][NextBuffer]_vars

----------------------------------------------------------------------------
(* The batch daemon, whisper-daemon.py: frames are collected between start
   and stop, and stop transcribes and types them in the control loop *)

\* the exception classes that the handlers of lines 116 and 123 catch
Caught == {"SubprocessError", "FileNotFoundError"}

\* how subprocess.run (line 115) and subprocess.Popen (line 120) can end:
\* by returning, or by raising an exception of one of these classes
\* (OSError: one that is no FileNotFoundError, such as PermissionError)
Outcomes == {"ok"} \cup Caught \cup {"OSError"}

\* what whisper_model.transcribe returns in a run of the batch daemon
BatchTexts == {<<"a">>, <<" ", "a">>, <<" ">>}

\* a stop that called neither xdotool nor xclip
NoEmit == [text |-> <<>>, primary |-> "none", fallback |-> "none"]

\* start_recording(), lines 56-79; opened: whether p.open succeeds
BatchStartRecording(opened) ==
    IF recording
    THEN UNCHANGED <<recording, stream, audio_buffer>>
    ELSE /\ audio_buffer' = <<>>
         /\ recording' = opened
         /\ stream' = IF opened THEN "open" ELSE stream

\* Emit that never calls xclip
Emit_NoFallback(text, primary, fallback) ==
    IF text = <<>>
    THEN NoEmit
    ELSE [text |-> text, primary |-> primary, fallback |-> "none"]

\* lines 110-124: what the stop does with the text of the transcription
Emit(text, primary, fallback) ==
    IF text = <<>>
    THEN NoEmit
    ELSE [text |-> text,
          primary |-> primary,
          fallback |-> IF primary \in Caught THEN fallback ELSE "none"]

\* stop_recording_and_process(), lines 81-130, with recording set;
\* wrote: whether the WAV file is written (lines 99-103) or wave.open raises;
\* transcribed: whether whisper_model.transcribe returns result or raises;
\* primary, fallback: how the calls of xdotool and of xclip end
StopRecordingAndProcess(wrote, transcribed, result, primary, fallback) ==
    /\ recording' = FALSE
    /\ stream' = IF stream = "None" THEN stream ELSE "closed"
    /\ IF audio_buffer # <<>> /\ ~wrote
       THEN /\ main_pc' = "command"
            /\ UNCHANGED last_command
            /\ hist' = NoEmit
       ELSE /\ main_pc' = "capture"
            /\ last_command' = "stop"
            /\ hist' = IF audio_buffer # <<>> /\ transcribed
                       THEN Emit(strip(result), primary, fallback)
                       ELSE NoEmit

\* lines 138-147: the control file holds command
BatchCommand(command) ==
    /\ main_pc = "command"
    /\ IF command = last_command
       THEN /\ main_pc' = "capture"
            /\ UNCHANGED <<recording, stream, audio_buffer, last_command,
                           hist>>
       ELSE CASE command = "start" ->
                   /\ \E opened \in BOOLEAN : BatchStartRecording(opened)
                   /\ main_pc' = "capture"
                   /\ last_command' = command
                   /\ UNCHANGED hist
              [] command = "stop" /\ recording ->
                   /\ \E wrote, transcribed \in BOOLEAN :
                      \E result \in BatchTexts :
                      \E primary, fallback \in Outcomes :
                         StopRecordingAndProcess(wrote, transcribed, result,
                                                 primary, fallback)
                   /\ UNCHANGED audio_buffer
              [] OTHER ->
                   /\ main_pc' = "capture"
                   /\ last_command' = command
                   /\ UNCHANGED <<recording, stream, audio_buffer, hist>>
    /\ UNCHANGED <<audio_queue, transcription_thread, stop_threads,
                   last_text, threads, nsamples, cleared_at, dispatched>>

\* lines 150-157; read: whether stream.read returns a chunk or raises
BatchCapture(read) ==
    /\ main_pc = "capture"
    /\ main_pc' = "command"
    /\ IF recording /\ stream # "None" /\ read
       THEN /\ nsamples < MaxReads
            /\ audio_buffer' = Append(audio_buffer, nsamples + 1)
            /\ nsamples' = nsamples + 1
       ELSE UNCHANGED <<audio_buffer, nsamples>>
    /\ UNCHANGED <<recording, stream, audio_queue, transcription_thread,
                   stop_threads, last_text, last_command, threads,
                   cleared_at, dispatched, hist>>

NextBatch ==
    \/ \E command \in Commands : BatchCommand(command)
    \/ \E read \in BOOLEAN : BatchCapture(read)

----------------------------------------------------------------------------
(* The two daemons side by side: a run is a run of the real-time daemon or a
   run of the batch daemon, told apart by the history it keeps *)

Realtime == "last" \in DOMAIN hist

\* the module globals after import: lines 41-49 of realtime-whisper-daemon.py,
\* lines 36-40 of whisper-daemon.py
InitVariants == Globals /\ hist \in {NoEvent, NoEmit}

NextVariants ==
    \/ Realtime /\ \E command \in Commands : Command(command)
    \/ Realtime /\ Join
    \/ Realtime /\ \E read \in BOOLEAN : Capture(read)
    \/ Realtime /\ \E t \in 1..MaxThreads : Worker(t)
    \/ ~Realtime /\ \E command \in Commands : BatchCommand(command)
    \/ ~Realtime /\ \E read \in BOOLEAN : BatchCapture(read)

SpecVariants == InitVariants /\ [][NextVariants]_vars

----------------------------------------------------------------------------
(* The reconciliation on its own: one worker handling results in turn *)

InitReconcile == Globals /\ hist = <<>>

\* one pass of the worker's loop body for a successful transcribe
\* (lines 113-141): the backend returned raw
HandleResult(raw) ==
    LET r == Reconcile(last_text, raw) IN
    /\ Len(hist) < MaxResults
    /\ last_text' = r.last_text
    /\ hist' = Append(hist, [raw |-> raw,
                             before |-> last_text,
                             typed |-> r.typed,
                             new_text |-> r.new_text,
                             after |-> r.last_text])
    /\ UNCHANGED <<recording, stream, audio_buffer, audio_queue,
                   transcription_thread, stop_threads, last_command, main_pc,
                   threads, nsamples, cleared_at, dispatched>>

NextReconcile == \E raw \in BackendTexts : HandleResult(raw)

SpecReconcile == InitReconcile /\ [][NextReconcile]_vars

----------------------------------------------------------------------------
(* Properties of the reconciliation, checked under SpecReconcile *)

Handled == hist # <<>>
\* the most recent result handled
LastH == hist[Len(hist)]
\* the trimmed candidate of the i-th result
Cand(i) == strip(hist[i].raw)
LastCand == Cand(Len(hist))

\* a result that passes the suppression tests of steps 1 and 2
Fresh(last, cand) ==
    /\ cand # <<>>
    /\ cand # last
    /\ ~endswith(last, cand)

\* the delta rule as the specification words it: the first 10 characters of
\* the candidate equal the first 10 characters of lastText
RuleAsWorded(last, cand) ==
    IF Len(cand) > Len(last) /\ SliceTo(cand, 10) = SliceTo(last, 10)
    THEN SliceFrom(cand, Len(last))
    ELSE <<" ">> \o cand

\* candidate and lastText agree on the first 10 positions of lastText, or on
\* all of lastText when it has fewer than 10 characters
AgreeOnOpening(last, cand) ==
    \A i \in 1..Min(10, Len(last)) : i <= Len(cand) /\ cand[i] = last[i]

RuleAmended(last, cand) ==
    IF Len(cand) > Len(last) /\ AgreeOnOpening(last, cand)
    THEN SliceFrom(cand, Len(last))
    ELSE <<" ">> \o cand

\* C1 as claimed: for a trimmed candidate that is non-empty, differs from
\* lastText and is no trailing substring of it, the typed delta is
\* candidate[len(lastText):] when the candidate is longer and the first 10
\* characters of both are equal, " " + candidate otherwise, and lastText
\* becomes the candidate.
C1_AsClaimed ==
    Handled /\ Fresh(LastH.before, LastCand) =>
        /\ LastH.typed
        /\ LastH.new_text = RuleAsWorded(LastH.before, LastCand)
        /\ LastH.after = LastCand

\* C1 amended: the same, with the continuation test "the candidate is longer
\* than lastText and starts with the first 10 characters of lastText (with
\* all of lastText when it is shorter than 10, so always when it is empty)".
C1_DeltaRule ==
    Handled /\ Fresh(LastH.before, LastCand) =>
        /\ LastH.typed
        /\ LastH.new_text = RuleAmended(LastH.before, LastCand)
        /\ LastH.after = LastCand

\* a longer candidate that starts with a lastText of fewer than 10
\* characters has been handled: the case the two rules differ on
C1_Witness ==
    /\ Handled
    /\ Fresh(LastH.before, LastCand)
    /\ LastH.before # <<>>
    /\ Len(LastH.before) < 10
    /\ Len(LastCand) > 10
    /\ startswith(LastCand, LastH.before)

Space == <<" ">>

\* C2 as claimed: in a fresh session "hello" is typed as " hello" and
\* lastText becomes "hello"; "hello world" next is typed as " world" and
\* lastText becomes "hello world".
C2_AsClaimed ==
    /\ (Len(hist) >= 1 /\ hist[1].raw = Hello) =>
           /\ hist[1].new_text = Space \o Hello
           /\ hist[1].after = Hello
    /\ (Len(hist) >= 2 /\ hist[1].raw = Hello /\ hist[2].raw = HelloWorld) =>
           /\ hist[2].new_text = SliceFrom(HelloWorld, Len(Hello))
           /\ hist[2].after = HelloWorld

\* C2 amended: in a fresh session "hello" is typed as "hello", with no
\* leading space, and lastText becomes "hello"; "hello world" next is typed
\* as " world" and lastText becomes "hello world".
C2_Scenario ==
    /\ (Len(hist) >= 1 /\ hist[1].raw = Hello) =>
           /\ hist[1].typed
           /\ hist[1].new_text = Hello
           /\ hist[1].after = Hello
    /\ (Len(hist) >= 2 /\ hist[1].raw = Hello /\ hist[2].raw = HelloWorld) =>
           /\ hist[2].typed
           /\ hist[2].new_text = <<" ", "w", "o", "r", "l", "d">>
           /\ hist[2].after = HelloWorld

C2_Witness ==
    /\ Len(hist) = 2
    /\ hist[1].raw = Hello
    /\ hist[2].raw = HelloWorld
    /\ last_text = HelloWorld

\* C3: when the trimmed candidate is empty, equals lastText or is a trailing
\* substring of lastText, nothing is typed and lastText is unchanged.
C3_Suppressed ==
    Handled /\ ~Fresh(LastH.before, LastCand) =>
        /\ ~LastH.typed
        /\ LastH.new_text = <<>>
        /\ LastH.after = LastH.before
        /\ last_text = LastH.before

\* a proper trailing substring of lastText was handled right after a result
\* of whitespace only
C3_Witness ==
    /\ Len(hist) = 3
    /\ hist[1].typed
    /\ hist[2].raw # <<>>
    /\ Cand(2) = <<>>
    /\ Cand(3) # <<>>
    /\ Cand(3) # hist[3].before
    /\ endswith(hist[3].before, Cand(3))

\* C4: a result handled twice in a row types nothing the second time and
\* leaves lastText as the first time left it, whatever lastText was before.
C4_Idempotent ==
    \A i \in 2..Len(hist) :
        hist[i].raw = hist[i-1].raw =>
            /\ ~hist[i].typed
            /\ hist[i].new_text = <<>>
            /\ hist[i].after = hist[i-1].after

\* the same text twice, typed the first time, against a non-empty lastText
C4_Witness ==
    /\ Len(hist) = 3
    /\ hist[2].before # <<>>
    /\ hist[2].typed
    /\ hist[3].raw = hist[2].raw
    /\ hist[3].raw # strip(hist[3].raw)

\* C5: when the trimmed candidate starts with lastText, the delta is
\* candidate[len(lastText):] with no leading space added, also for a
\* lastText of fewer than 10 characters and for the empty lastText.
C5_PrefixDelta ==
    Handled /\ startswith(LastCand, LastH.before) =>
        /\ LastH.new_text = SliceFrom(LastCand, Len(LastH.before))
        /\ LastH.typed = (Len(LastCand) > Len(LastH.before))
        /\ LastH.after = LastCand

\* first against the empty lastText, then against one of fewer than 10
\* characters, then against one of more than 10
C5_Witness ==
    /\ Len(hist) = 3
    /\ \A i \in 1..3 : hist[i].typed /\ startswith(Cand(i), hist[i].before)
    /\ Len(hist[2].before) < 10
    /\ Len(hist[3].before) > 10

RECURSIVE Typed(_)
\* everything typed for the first n results, in order
Typed(n) == IF n = 0 THEN <<>> ELSE Typed(n - 1) \o hist[n].new_text

PrevCand(i) == IF i = 1 THEN <<>> ELSE Cand(i - 1)

\* candidates of strictly increasing length that share their opening
Growing ==
    \A i \in 1..Len(hist) :
        /\ Cand(i) # <<>>
        /\ Len(Cand(i)) > Len(PrevCand(i))
        /\ AgreeOnOpening(PrevCand(i), Cand(i))

Extending == \A i \in 1..Len(hist) : startswith(Cand(i), PrevCand(i))

\* C6: for candidates of strictly increasing length with a common opening,
\* handled in order from the empty lastText, each delta is exactly the part
\* of its candidate beyond the length of the previous candidate, and when
\* every candidate extends the previous one the deltas concatenate to the
\* last candidate.
C6_NoDuplicates ==
    Growing =>
        /\ \A i \in 1..Len(hist) :
               /\ hist[i].typed
               /\ hist[i].new_text = SliceFrom(Cand(i), Len(PrevCand(i)))
        /\ Handled /\ Extending => Typed(Len(hist)) = LastCand

\* three growing candidates of more than 10 characters, each extending
\* the one before
C6_Witness ==
    /\ Len(hist) = 3
    /\ Growing
    /\ Extending
    /\ Len(Cand(1)) >= 10

\* C7 as claimed: a reconcile step never makes lastText shorter.
C7_AsClaimed ==
    Handled => Len(LastH.after) >= Len(LastH.before)

\* C7 amended: lastText gets shorter only by a step of the new-utterance
\* branch, which types " " + candidate and sets lastText to the candidate
\* whatever its length; a step that types a continuation makes lastText
\* strictly longer and a step that types nothing leaves it unchanged.
C7_ShrinksOnlyOnNewUtterance ==
    Handled =>
        /\ Len(LastH.after) < Len(LastH.before) =>
               /\ LastH.typed
               /\ LastH.new_text = Space \o LastCand
               /\ LastH.after = LastCand
        /\ LastH.typed /\ LastH.new_text # Space \o LastCand =>
               Len(LastH.after) > Len(LastH.before)
        /\ ~LastH.typed => LastH.after = LastH.before

\* lastText of more than 10 characters replaced by a shorter candidate
\* with the same opening
C7_Witness ==
    /\ Handled
    /\ Len(LastH.after) < Len(LastH.before)
    /\ Len(LastH.after) >= 10
    /\ AgreeOnOpening(LastH.before, LastH.after)

----------------------------------------------------------------------------
(* Properties of the daemon, checked under Spec *)

\* C8: every start that takes the controller from Idle to Recording leaves
\* lastText empty, whatever it was at the end of the previous session.
C8_StartResetsLastText ==
    [][(~recording /\ recording') => last_text' = <<>>]_vars

----------------------------------------------------------------------------
(* Properties of the buffer and the dispatch, checked under SpecBuffer *)

\* C9: the rolling buffer never holds more than BUFFER_LENGTH * SAMPLE_RATE
\* samples, and holds exactly the most recent samples pushed since the last
\* clear, oldest first.
C9_RollingBuffer ==
    LET held == Min(Capacity, nsamples - cleared_at) IN
    /\ Len(audio_buffer) <= Capacity
    /\ audio_buffer = [i \in 1..held |-> nsamples - held + i]

\* a full buffer that has evicted samples pushed after a clear
C9_Witness ==
    /\ cleared_at > 0
    /\ Len(audio_buffer) = Capacity
    /\ audio_buffer[1] > cleared_at + 1

DispatchedOnce ==
    \A i, j \in 1..Len(dispatched) : i # j => dispatched[i] # dispatched[j]

\* C10: each process_audio_chunk call puts exactly one segment on the queue
\* when the buffer then holds at least SEGMENT_LENGTH * SAMPLE_RATE samples
\* and none otherwise; the segment is the whole buffer as it is then; the
\* segments already queued stay as they were; no two segments ever
\* dispatched are the same.
C10_Dispatch ==
    /\ [][nsamples' # nsamples =>
            IF Len(audio_buffer') >= Threshold
            THEN /\ audio_queue' = Append(audio_queue, audio_buffer')
                 /\ dispatched' = Append(dispatched, audio_buffer')
            ELSE /\ audio_queue' = audio_queue
                 /\ dispatched' = dispatched]_vars
    /\ [][nsamples' = nsamples => dispatched' = dispatched]_vars
    /\ []DispatchedOnce

\* a chunk that left the buffer under the threshold was pushed while the
\* queue held a segment of the full buffer behind a shorter one
C10_Witness ==
    /\ Len(audio_queue) >= 2
    /\ Len(audio_queue[1]) \in Threshold..(Capacity - 1)
    /\ Len(audio_queue[Len(audio_queue)]) = Capacity
    /\ audio_buffer # <<>>
    /\ Len(audio_buffer) < Threshold

----------------------------------------------------------------------------
(* Properties of the worker threads and the sessions, checked under Spec *)

Threads == 1..MaxThreads

\* in this step thread t passes line 119 with a result of the backend
Reconciles(t) ==
    /\ threads[t].pc = "transcribe"
    /\ threads'[t].pc # "transcribe"
    /\ hist'.last.ev \in {"reconcile", "suppressed"}

\* C11: results are reconciled in the order their segments were dispatched,
\* one at a time: when a thread starts on a result (the read of last_text at
\* line 123), no result of a segment dispatched later has been started on,
\* and no other thread is between its read of last_text and its update of it
\* (line 141).
C11_ReconcileInOrder ==
    [][\A t \in Threads :
          Reconciles(t) =>
             /\ Newest(threads[t].audio_data) > hist.begun
             /\ \A u \in Threads \ {t} : threads[u].pc # "type"]_vars

\* C12: at every moment at most one transcription_worker thread is alive.
C12_OneWorker ==
    Cardinality({t \in Threads : Alive(t)}) <= 1

\* C13: the only worker alive leaves its loop (line 104) only when the queue
\* holds no segment: what was pending at the stop has been taken first.
C13_DrainsBeforeHalt ==
    [][\A t \in Threads :
          (/\ Alive(t)
           /\ threads'[t].pc = "dead"
           /\ \A u \in Threads \ {t} : ~Alive(u))
          => audio_queue = <<>>]_vars

\* C14: the queue is empty whenever a session starts, and the worker that a
\* start has created never takes from the queue a segment dispatched before
\* that start.
C14_NoSegmentAcrossSessions ==
    /\ [][(~recording /\ recording') => audio_queue' = <<>>]_vars
    /\ [][\A t \in Threads :
             (/\ recording
              /\ t = transcription_thread
              /\ threads[t].pc = "get"
              /\ threads'[t].pc = "transcribe")
             => Newest(threads'[t].audio_data) > cleared_at]_vars

\* in this step the control loop handles a start while recording is set
StartWhileRecording ==
    /\ main_pc = "command"
    /\ recording
    /\ last_command # "start"
    /\ last_command' = "start"

\* in this step the control loop handles a stop while recording is not set
StopWhileIdle ==
    /\ main_pc = "command"
    /\ ~recording
    /\ last_command # "stop"
    /\ last_command' = "stop"

\* C15: a start handled while Recording and a stop handled while Idle leave
\* the buffer, the queue, last_text, the worker threads, the stream and the
\* recording flag as they were, start no worker and type nothing: the
\* control loop goes on to the capture without waiting in a join and
\* without the Return of line 176.
C15_RepeatedCommandIsNoOp ==
    [][(StartWhileRecording \/ StopWhileIdle) =>
          /\ UNCHANGED <<audio_buffer, audio_queue, last_text, threads,
                         transcription_thread, stream, recording,
                         stop_threads, dispatched>>
          /\ main_pc' = "capture"
          /\ hist'.delimited = hist.delimited
          /\ hist'.last.ev \in {"start_noop", "stop_noop"}]_vars

\* a start has just been handled while recording, with a worker alive, a
\* segment queued and a text typed before
C15_Witness ==
    /\ hist.last.ev = "start_noop"
    /\ main_pc = "capture"
    /\ recording
    /\ Alive(transcription_thread)
    /\ audio_queue # <<>>
    /\ last_text # <<>>

\* in this step whisper_model.transcribe raises in thread t
BackendFails(t) ==
    /\ threads[t].pc = "transcribe"
    /\ threads'[t].pc # "transcribe"
    /\ hist'.last.ev = "failed"

\* C16: when the backend call raises, the segment is dropped and not put
\* back on the queue, nothing is typed, last_text stays as it was, and the
\* thread is back at the head of its loop (line 104), from where it takes
\* the next queued segment.
C16_BackendFailureDropsSegment ==
    [][\A t \in Threads :
          BackendFails(t) =>
             /\ UNCHANGED <<last_text, audio_queue, dispatched, stop_threads,
                            recording>>
             /\ threads'[t] = [Idle EXCEPT !.pc = "loop"]
             /\ hist'.delimited = hist.delimited]_vars

\* the backend has just failed in the thread of a running session, with
\* another segment waiting in the queue
C16_Witness ==
    \E t \in Threads :
       /\ hist.last = Event("failed", t)
       /\ threads[t].pc = "loop"
       /\ t = transcription_thread
       /\ recording
       /\ ~stop_threads
       /\ audio_queue # <<>>

\* in this step thread t leaves the xdotool call of line 136
Types(t) ==
    /\ threads[t].pc = "type"
    /\ threads'[t].pc # "type"

\* C18: after stop_recording has typed Return, no text is typed until the
\* next start.
C18_DelimiterIsLast ==
    [][\A t \in Threads :
          (Types(t) /\ hist'.last.ev = "typed") => ~hist.delimited]_vars

\* C19: when recording is not set and the control loop is not inside
\* stop_recording, no transcription_worker thread is alive.
C19_IdleHasNoWorker ==
    (~recording /\ main_pc # "join") => \A t \in Threads : ~Alive(t)

\* C20: the step that leaves the xdotool call sets last_text to the
\* candidate whether xdotool succeeded or not, and against that last_text
\* the same candidate gives nothing to type.
C20_LastTextAdvancesOnFailedEmit ==
    [][\A t \in Threads :
          Types(t) =>
             /\ last_text' = threads[t].transcription
             /\ ~Reconcile(last_text', threads[t].transcription).typed]_vars

\* xdotool has just failed for a candidate that is now last_text
C20_Witness ==
    \E t \in Threads :
       /\ hist.last = Event("type_failed", t)
       /\ last_text # <<>>
       /\ threads[t].pc = "loop"

----------------------------------------------------------------------------
(* Properties of both daemons, checked under SpecVariants *)

\* in this step the batch daemon handles a stop while recording is set
BatchStops ==
    /\ main_pc = "command"
    /\ recording
    /\ ~recording'

\* after a failed xdotool call the worker thread is back at the head of its
\* loop, and the recording flag, the stop flag, the stream and the control
\* loop are as they were
RealtimeKeepsRunning ==
    \A t \in Threads :
       (Types(t) /\ hist'.last.ev = "type_failed") =>
          /\ threads'[t].pc = "loop"
          /\ UNCHANGED <<recording, stop_threads, stream, main_pc,
                         audio_queue, audio_buffer>>

\* after a stop of the batch daemon the daemon is Idle and its control loop
\* goes on to the capture and the next read of the control file
BatchReturnsToIdle ==
    /\ ~recording'
    /\ main_pc' = "capture"
    /\ last_command' = "stop"

\* C17 as claimed: a failed xdotool call never stops the session; in the
\* batch daemon every failed xdotool call is followed by one attempt on
\* xclip, and the stop returns to Idle whatever xclip does.
C17_AsClaimed ==
    [][/\ Realtime => RealtimeKeepsRunning
       /\ ~Realtime =>
             ((BatchStops /\ hist'.primary \notin {"none", "ok"}) =>
                 /\ hist'.fallback # "none"
                 /\ BatchReturnsToIdle)]_vars

\* C17: a failed xdotool call never stops the session; in the batch daemon a
\* failed xdotool call is followed by one attempt on xclip exactly when it
\* failed with a SubprocessError or a FileNotFoundError (line 116), by none
\* when it raised anything else, and in every case the stop returns to Idle.
C17_SinkFailureKeepsSession ==
    [][/\ Realtime => RealtimeKeepsRunning
       /\ ~Realtime =>
             ((BatchStops /\ hist'.primary \notin {"none", "ok"}) =>
                 /\ hist'.fallback # "none" <=> hist'.primary \in Caught
                 /\ BatchReturnsToIdle)]_vars

\* the batch daemon has stopped with a text for which xdotool and xclip
\* both failed
C17_Witness ==
    /\ ~Realtime
    /\ hist.text # <<>>
    /\ hist.primary \in Caught
    /\ hist.fallback \in Caught
    /\ ~recording
    /\ main_pc = "capture"

====
